---- MODULE Spec2Model ----
(***************************************************************************)
(* koreader-sync: the KOReader "readingstatus" plugin (event recorder,     *)
(* on-disk offline queue, batched delivery), the /events worker that       *)
(* ingests its batches (handleUpdate) and the /sync-stats worker           *)
(* (handleSyncStats).                                                      *)
(*                                                                         *)
(* Text values (titles, ids, ...) are sequences of character codes, so     *)
(* that cleanIsbn and generateBookId are computed character by character.  *)
(* Nil is the absent text value (Lua nil, JS undefined, SQL NULL) and NULL *)
(* the absent number.                                                      *)
(***************************************************************************)
EXTENDS Integers, Sequences, FiniteSets, TLC

----------------------------------------------------------------------------
(* Bounds of the model *)

\* records the plugin may enqueue in one behaviour
MaxEnqueued == 3
\* reading sessions (book opens) in one behaviour
MaxSessions == 2
\* seconds the device clock may advance past its first reading
MaxTime == 5
\* milliseconds the server clock may advance
MaxSrvTime == 1
\* process restarts in one behaviour
MaxRestarts == 1
\* requests the /sync-stats worker runs in one behaviour
MaxServed == 2
\* requests posted to a worker by a client other than the plugin
MaxPosts == 3
\* events in the body of one request where batches are studied
MaxBatch == 3
\* requests the /events worker runs whose batch stays in the queue afterwards
MaxReplays == 1
\* page updates followed in one session where the recorder is studied
MaxTurns == 4

----------------------------------------------------------------------------
(* Values *)

Nil == <<-1>>
NULL == -1

\* "Unknown"
Unknown == <<85, 110, 107, 110, 111, 119, 110>>
\* "A"
TitleA == <<65>>
\* ""
EmptyStr == <<>>
\* "session_start", "session_end", "page_turn" (kept symbolic: only compared)
SESSION_START == <<115, 95, 115>>
SESSION_END == <<115, 95, 101>>
PAGE_TURN == <<112, 95, 116>>

\* the element of a one-element set: The({F(x) : x \in {e}}) is F(e) with e
\* evaluated once
The(S) == CHOOSE x \in S : TRUE

\* a Lua table / JSON object read at a key: absent keys read as nil / undefined
Get(t, k) == IF k \in DOMAIN t THEN t[k] ELSE IF k \in {"current_page", "total_pages", "progress"} THEN NULL ELSE Nil

IsNilAt(t, k) == Get(t, k) = (IF k \in {"current_page", "total_pages", "progress"} THEN NULL ELSE Nil)

\* json.encode of a Lua table: one JSON object on one line, holding the keys
\* whose value is not nil
json_encode(t) == [k \in {x \in DOMAIN t : ~IsNilAt(t, x)} |-> t[k]]

PayloadKeys == {"title", "author", "isbn", "current_page", "total_pages", "progress", "session_id", "event_type"}

\* json.decode of a line: the table with every payload key, nil where the
\* object has no such member
json_decode(line) == [k \in PayloadKeys |-> Get(line, k)]

----------------------------------------------------------------------------
(* Program constants *)

\* minimum seconds between two syncs that are not forced
MIN_SYNC_GAP == 5
\* delay of the startup flush scheduled by init
STARTUP_DELAY == 5
\* config.auth_token of the plugin: "t"
AUTH_TOKEN == <<116>>

\* os.time() when the device is first observed: the epoch clock is far past
\* MIN_SYNC_GAP, so the first unforced sync after a start is never throttled
Epoch == MIN_SYNC_GAP

\* page count of the open document and the pages a reader turns to
TotalPages == 8
DocPages == {1, 3, 5, 8}
\* the pages turned to where the queue and the transport are studied
QueuePages == {3}
\* titles of the documents on the device (doc_props.title; "" and nil occur)
Titles == {TitleA, EmptyStr}

\* the plausible dwell on one page, in seconds: MIN_DWELL to MAX_DWELL
MIN_DWELL == 5
MAX_DWELL == 90
\* seconds a reader stays on a page where the time filter is studied
Dwells == {3, MIN_DWELL, MAX_DWELL, MAX_DWELL + 1}

\* what a POST meets on its way: "ok" the worker answers and the answer
\* arrives; "unreachable" no connection or timeout before the worker runs;
\* "reply_lost" the worker runs and the answer does not arrive (timeout);
\* "edge_400" / "edge_500" an error status answered without running the worker
Links == {"ok", "unreachable", "reply_lost", "edge_400", "edge_500"}
\* values of the worker's AUTH_TOKEN secret: the plugin's token, or not set
Secrets == {AUTH_TOKEN, EmptyStr}

----------------------------------------------------------------------------
(* State *)

VARIABLES
    \* plugin process (module-level locals of main.lua and the open document)
    running,            \* the plugin is loaded for an open document
    ready,              \* onReaderReady has run for the open document
    last_sync_time,
    current_session_id,
    max_page_reached,
    doc_title,          \* self.ui.doc_props.title
    doc_page,           \* self.ui.document:getCurrentPage()
    startup_due,        \* times at which a startup flush scheduled by init is due
    pc,                 \* "idle"; "flush": attemptSync is about to call flushQueue;
                        \* "flush_close": the same inside onCloseDocument
    \* device
    now,                \* os.time()
    online,             \* NetworkMgr:isOnline()
    queue_file,         \* lines of readingstatus_queue.ndjson
    \* /events worker
    db,                 \* env.DB: books, reading_status, sessions, page_events
    srv_now,            \* the worker's clock
    \* /sync-stats worker
    sdb,                \* env.DB: book, page_stat_data, sync_state
    requests,           \* the handleSyncStats calls in progress, by slot: where each
                        \* stands and what it holds in its local variables
    \* observation
    enqueued,           \* number of payloads passed to enqueueEvent so far
    pending,            \* payloads written to the file since the file was last truncated
    dropped,            \* events a 200 answer counted as failed and the client then cleared
    opened_sessions,    \* session ids generated so far
    page_log,           \* the open session: the page it opened at, then its page updates
    restarts,
    served,             \* requests posted to a worker directly
    replays,            \* requests the /events worker has run whose batch stayed in the queue
    last                \* what the last step did

vars == <<running, ready, last_sync_time, current_session_id, max_page_reached, doc_title, doc_page, startup_due, pc, now, online, queue_file, db, srv_now, sdb, requests, enqueued, pending, dropped, opened_sessions, page_log, restarts, served, replays, last>>

clientVars == <<running, ready, last_sync_time, current_session_id, max_page_reached, doc_title, doc_page, startup_due, pc>>
deviceVars == <<now, online, queue_file>>
eventsVars == <<db, srv_now>>
obsVars == <<enqueued, pending, dropped, opened_sessions, page_log, restarts, served, replays>>

----------------------------------------------------------------------------
(* Queue persistence (main.lua) *)

\* a loadQueue that returns the lines newest first
loadQueueNewestFirst(file) == [i \in 1..Len(file) |-> json_decode(file[Len(file) + 1 - i])]

\* a loadQueue that ran before the last line was written
loadQueueEarlier(file) ==
    [i \in 1..(IF Len(file) > 1 THEN Len(file) - 1 ELSE Len(file)) |-> json_decode(file[i])]

\* loadQueue: the decoded events of the non-empty lines of the file that
\* decode, in file order; the file is only read
RECURSIVE loadQueue(_)
loadQueue(file) ==
    IF file = <<>> THEN <<>>
    ELSE LET line == Head(file)
         IN  IF line = <<>> THEN loadQueue(Tail(file))
             ELSE <<json_decode(line)>> \o loadQueue(Tail(file))

\* a clearQueue that leaves the file as it is
clearQueueKept(file, opened) == file

\* clearQueue: io.open(path, "w") truncates the file when it can be opened
clearQueue(file, opened) == IF opened THEN <<>> ELSE file

\* enqueueEvent: io.open(path, "a"), write the encoded payload and a newline,
\* close; when the file cannot be opened only a warning is logged
enqueueEvent(file, payload, opened) == IF opened THEN Append(file, json_encode(payload)) ELSE file

----------------------------------------------------------------------------
(* Text helpers of the worker *)

\* a JS value used as a condition: undefined, null and "" are falsy
Truthy(x) == x # Nil /\ x # EmptyStr
\* a JS number used as a condition: undefined, null and 0 are falsy
TruthyNum(n) == n # NULL /\ n # 0

\* String.prototype.toLowerCase on ASCII letters
ToLower(str) == [i \in 1..Len(str) |-> IF str[i] >= 65 /\ str[i] <= 90 THEN str[i] + 32 ELSE str[i]]

\* cleanIsbn: isbn?.replace(/[-\s]/g, "") || null  (45 is "-", 32 is " ")
cleanIsbn(isbn) ==
    IF isbn = Nil THEN Nil
    ELSE LET stripped == SelectSeq(isbn, LAMBDA c : c # 45 /\ c # 32)
         IN  IF stripped = EmptyStr THEN Nil ELSE stripped

\* one step of the hash, ((h << 5) - h + c) | 0, on the 32-bit pattern of h
\* held as two 16-bit halves <<high, low>>
HashStep(h, c) ==
    LET low == 31 * h[2] + c
        high == 31 * h[1] + (low \div 65536)
    IN  <<high % 65536, low % 65536>>

\* the loop over the characters of str from the i-th on
RECURSIVE HashFrom(_, _, _)
HashFrom(h, str, i) ==
    IF i > Len(str) THEN h ELSE The({HashFrom(x, str, i + 1) : x \in {HashStep(h, str[i])}})

\* Math.abs of the signed 32-bit value of the pattern, again as two halves
\* (the magnitude of a negative value is its two's complement)
AbsHalves(h) ==
    IF h[1] < 32768 THEN h
    ELSE IF h[2] = 0 THEN <<65536 - h[1], 0>>
    ELSE <<65535 - h[1], 65536 - h[2]>>

HexDigit(d) == IF d < 10 THEN 48 + d ELSE 87 + d

\* Number.prototype.toString(16) of a value below 65536, without leading zeros
RECURSIVE Hex(_)
Hex(n) == IF n < 16 THEN <<HexDigit(n)>> ELSE Append(Hex(n \div 16), HexDigit(n % 16))

\* the four hex digits of a low half that follows a non-zero high half
Hex4(n) == <<HexDigit(n \div 4096), HexDigit((n \div 256) % 16), HexDigit((n \div 16) % 16), HexDigit(n % 16)>>

HexHalves(h) == IF h[1] = 0 THEN Hex(h[2]) ELSE Hex(h[1]) \o Hex4(h[2])

\* generateBookId: the isbn when there is one, else "book_" and the hex hash
\* of `${title || ""}:${author || ""}`.toLowerCase()   (58 is ":")
\* "book_" and Math.abs(hash).toString(16) for the hash of str
BookIdOfStr(str) ==
    The({<<98, 111, 111, 107, 95>> \o HexHalves(m) : m \in {AbsHalves(h) : h \in {HashFrom(<<0, 0>>, str, 1)}}})

generateBookId(isbn, title, author) ==
    IF Truthy(isbn) THEN isbn
    ELSE BookIdOfStr(ToLower((IF Truthy(title) THEN title ELSE EmptyStr) \o <<58>>
                             \o (IF Truthy(author) THEN author ELSE EmptyStr)))

----------------------------------------------------------------------------
(* /events worker: the store and handleUpdate *)

\* a table is the sequence of its rows in insertion order
EmptyDB == [books |-> <<>>, reading_status |-> <<>>, sessions |-> <<>>, page_events |-> <<>>]

HasRow(table, col, v) == \E i \in 1..Len(table) : table[i][col] = v

RowOf(table, col, v) == table[CHOOSE i \in 1..Len(table) : table[i][col] = v]

\* INSERT INTO books ... ON CONFLICT(id) DO NOTHING
InsertBook(books, row) == IF HasRow(books, "id", row.id) THEN books ELSE Append(books, row)

\* an upsert of reading_status that leaves an existing row alone
UpsertStatusIgnore(rs, row) == IF HasRow(rs, "book_id", row.book_id) THEN rs ELSE Append(rs, row)

\* INSERT INTO reading_status ... ON CONFLICT(book_id) DO UPDATE SET
\* current_page, progress_percent, last_read_at
UpsertStatus(rs, row) ==
    IF HasRow(rs, "book_id", row.book_id)
    THEN [i \in 1..Len(rs) |-> IF rs[i].book_id = row.book_id THEN row ELSE rs[i]]
    ELSE Append(rs, row)

\* INSERT OR IGNORE INTO sessions (id, book_id, started_at, start_page)
InsertSession(sessions, row) == IF HasRow(sessions, "id", row.id) THEN sessions ELSE Append(sessions, row)

\* an end that creates the sessions row when there is none
EndSessionUpsert(sessions, id, t, page, pagesRead) ==
    IF HasRow(sessions, "id", id)
    THEN [i \in 1..Len(sessions) |->
            IF sessions[i].id = id
            THEN [sessions[i] EXCEPT !.ended_at = t, !.end_page = page, !.pages_read = pagesRead]
            ELSE sessions[i]]
    ELSE Append(sessions, [id |-> id, book_id |-> Nil, started_at |-> NULL, ended_at |-> t,
                           start_page |-> NULL, end_page |-> page, pages_read |-> pagesRead])

\* UPDATE sessions SET ended_at = ?, end_page = ?, pages_read = ? WHERE id = ?
EndSession(sessions, id, t, page, pagesRead) ==
    [i \in 1..Len(sessions) |->
        IF sessions[i].id = id
        THEN [sessions[i] EXCEPT !.ended_at = t, !.end_page = page, !.pages_read = pagesRead]
        ELSE sessions[i]]

\* INSERT INTO page_events (book_id, page_number, progress_percent, session_id, timestamp);
\* id is the AUTOINCREMENT key, no row is ever deleted
InsertPageEvent(pe, row) == Append(pe, [row EXCEPT !.id = Len(pe) + 1])

\* the second value, not clamped by the first
Unclamped(a, b) == b

\* Math.max
Max(a, b) == IF a >= b THEN a ELSE b

\* a book id derived from the session id in place of the author
BookIdOfSession(data) == generateBookId(cleanIsbn(Get(data, "isbn")), Get(data, "title"), Get(data, "session_id"))

\* the values handleUpdate derives from the event
BookIdOf(data) == generateBookId(cleanIsbn(Get(data, "isbn")), Get(data, "title"), Get(data, "author"))

\* current_page || 0
PageOf(data) == IF TruthyNum(Get(data, "current_page")) THEN Get(data, "current_page") ELSE 0

\* progress || 0
ProgressOf(data) == IF TruthyNum(Get(data, "progress")) THEN Get(data, "progress") ELSE 0

\* a first statement that stores no row
StmtNoBook(d, data, t, bookId) == d

\* first statement: the books row, unless the id is already there
StmtBook(d, data, t, bookId) ==
    [d EXCEPT !.books = InsertBook(@,
        [id |-> bookId,
         isbn |-> cleanIsbn(Get(data, "isbn")),
         title |-> Get(data, "title"),
         author |-> IF Truthy(Get(data, "author")) THEN Get(data, "author") ELSE Nil,
         total_pages |-> IF TruthyNum(Get(data, "total_pages")) THEN Get(data, "total_pages") ELSE NULL,
         created_at |-> t])]

\* second statement: the reading_status row of the book
StmtStatus(d, data, t, bookId) ==
    [d EXCEPT !.reading_status = UpsertStatus(@,
        [book_id |-> bookId, current_page |-> PageOf(data),
         progress_percent |-> ProgressOf(data), last_read_at |-> t])]

\* session?.start_page || 0 for the row SELECTed by session id
StartPageOf(sessions, id) ==
    IF HasRow(sessions, "id", id) /\ TruthyNum(RowOf(sessions, "id", id).start_page)
    THEN RowOf(sessions, "id", id).start_page
    ELSE 0

\* third statement, by event_type: session_start inserts the session row,
\* session_end sets the end fields with pages_read clamped at 0
StmtSession(d, data, t, bookId) ==
    IF Get(data, "event_type") = SESSION_START
    THEN [d EXCEPT !.sessions = InsertSession(@,
            [id |-> Get(data, "session_id"), book_id |-> bookId, started_at |-> t,
             ended_at |-> NULL, start_page |-> PageOf(data), end_page |-> NULL, pages_read |-> NULL])]
    ELSE IF Get(data, "event_type") = SESSION_END
    THEN [d EXCEPT !.sessions = EndSession(@, Get(data, "session_id"), t, PageOf(data),
            Max(0, PageOf(data) - StartPageOf(@, Get(data, "session_id"))))]
    ELSE d

\* last statement: the page_events row, when the event has a session id
StmtPageEvent(d, data, t, bookId) ==
    IF Truthy(Get(data, "session_id"))
    THEN [d EXCEPT !.page_events = InsertPageEvent(@,
            [id |-> 0, book_id |-> bookId, page_number |-> PageOf(data),
             progress_percent |-> ProgressOf(data), session_id |-> Get(data, "session_id"),
             timestamp |-> t])]
    ELSE d

\* the statements of handleUpdate for the bookId it computed, and
\* handleUpdate(db, data) run at worker time t. The statements run one after
\* the other without a transaction, so a throw keeps what ran before it:
\* "title is required" throws before any statement; D1's bind() throws on the
\* undefined session_id of a session_start or session_end.
Statements(d, data, t, bookId) ==
    IF Get(data, "event_type") \in {SESSION_START, SESSION_END} /\ Get(data, "session_id") = Nil
    THEN [db |-> StmtStatus(StmtBook(d, data, t, bookId), data, t, bookId), ok |-> FALSE]
    ELSE [db |-> StmtPageEvent(StmtSession(StmtStatus(StmtBook(d, data, t, bookId), data, t, bookId),
                                           data, t, bookId), data, t, bookId),
          ok |-> TRUE]

\* a handleUpdate without the check of the title
handleUpdateUnchecked(d, data, t) == The({Statements(d, data, t, bookId) : bookId \in {BookIdOf(data)}})

handleUpdate(d, data, t) ==
    IF ~Truthy(Get(data, "title"))
    THEN [db |-> d, ok |-> FALSE]
    ELSE The({Statements(d, data, t, bookId) : bookId \in {BookIdOf(data)}})

RECURSIVE Sum(_, _)
Sum(f, n) == IF n = 0 THEN 0 ELSE f[n] + Sum(f, n - 1)

\* results.push for event i, then the events after it
Pushed(ok, rest) == [db |-> rest.db, results |-> <<ok>> \o rest.results]

\* a loop that ends at the first event that fails
RECURSIVE RunEventsUntilError(_, _, _, _, _)
RunEventsUntilError(d, events, t, adv, i) ==
    IF i > Len(events) THEN [db |-> d, results |-> <<>>]
    ELSE LET r == handleUpdate(d, events[i], t + adv[i])
         IN  IF r.ok THEN Pushed(TRUE, RunEventsUntilError(r.db, events, t + adv[i], adv, i + 1))
             ELSE [db |-> r.db, results |-> <<FALSE>>]

\* the loop of POST /events: each event in its own try/catch, the clock
\* advancing by adv[i] before event i is handled
RECURSIVE RunEvents(_, _, _, _, _)
RECURSIVE Ran(_, _, _, _, _)

RunEvents(d, events, t, adv, i) ==
    IF i > Len(events) THEN [db |-> d, results |-> <<>>]
    ELSE The({Ran(r, events, t + adv[i], adv, i) : r \in {handleUpdate(d, events[i], t + adv[i])}})

Ran(r, events, t, adv, i) == The({Pushed(r.ok, rest) : rest \in {RunEvents(r.db, events, t, adv, i + 1)}})

\* "Bearer " and the token: the Authorization header a client builds
Bearer(token) == <<66, 101, 97, 114, 101, 114, 32>> \o token

\* a withAuth that accepts every header that starts with the right one
withAuthStartsWith(authHeader, secret) ==
    /\ Truthy(secret) /\ Len(authHeader) >= Len(Bearer(secret))
    /\ SubSeq(authHeader, 1, Len(Bearer(secret))) = Bearer(secret)

\* withAuth: env.AUTH_TOKEN must be set and the Authorization header must be
\* "Bearer " and env.AUTH_TOKEN; a request without the header has Nil
withAuth(authHeader, secret) == Truthy(secret) /\ authHeader = Bearer(secret)

\* results.filter(r => r.ok).length
SuccessCount(results) == Cardinality({i \in 1..Len(results) : results[i]})

\* the 200 answer of POST /events after the loop
Answer(run, n) ==
    [db |-> run.db, status |-> 200, results |-> run.results,
     ok |-> SuccessCount(run.results) = n, processed |-> n,
     succeeded |-> SuccessCount(run.results), failed |-> n - SuccessCount(run.results)]

\* fetch for POST /events: 401 without running the handler; 400 when the
\* JSON body is an object, which for ... of cannot iterate; else the loop over
\* the array and a 200 answer counting the items.
\* body: [array |-> events] or [object |-> event]
fetchEvents(d, secret, authHeader, body, t, adv) ==
    IF ~withAuth(authHeader, secret)
    THEN [db |-> d, status |-> 401, results |-> <<>>, ok |-> FALSE, processed |-> 0, succeeded |-> 0, failed |-> 0]
    ELSE IF "array" \notin DOMAIN body
    THEN [db |-> d, status |-> 400, results |-> <<>>, ok |-> FALSE, processed |-> 0, succeeded |-> 0, failed |-> 0]
    ELSE The({Answer(run, Len(body.array)) : run \in {RunEvents(d, body.array, t, adv, 1)}})

\* POST /events by any client with the right token: a JSON body that is an
\* array of events or a single event object
PostBatch(body, adv) ==
    /\ served < MaxServed
    /\ served' = served + 1
    /\ srv_now + Sum(adv, Len(adv)) <= MaxSrvTime
    /\ \E x \in {fetchEvents(db, AUTH_TOKEN, Bearer(AUTH_TOKEN), body, srv_now, adv)} :
          /\ db' = x.db
          /\ srv_now' = srv_now + Sum(adv, Len(adv))
          /\ last' = [op |-> "batch", body |-> body, answer |-> [x EXCEPT !.db = 0], before |-> db]
    /\ UNCHANGED <<clientVars, deviceVars, sdb, requests, enqueued, pending, dropped, opened_sessions, page_log, restarts, replays>>

\* POST /events by any client: an array of one event in the body, handled at the worker's
\* time or a millisecond later
PostEvents(event, authHeader, secret, dt) ==
    /\ served < MaxPosts
    /\ srv_now + dt <= MaxSrvTime
    /\ withAuth(authHeader, secret) \/ dt = 0
    /\ served' = served + 1
    /\ \E x \in {fetchEvents(db, secret, authHeader, [array |-> <<event>>], srv_now, <<dt>>)} :
          /\ db' = x.db
          /\ srv_now' = srv_now + dt
          /\ last' = [op |-> "post", event |-> event, authHeader |-> authHeader, secret |-> secret,
                      status |-> x.status, results |-> x.results, before |-> db, at |-> srv_now + dt]
    /\ UNCHANGED <<clientVars, deviceVars, sdb, requests, enqueued, pending, dropped, opened_sessions, page_log, restarts, replays>>

\* getCurrentReading: the reading_status rows joined with their books row,
\* ORDER BY last_read_at DESC LIMIT 1. Rows with the same last_read_at come
\* in no defined order, so each row with the greatest last_read_at is a
\* possible result; without rows the answer is an error (Nil).
getCurrentReading(d) ==
    IF d.reading_status = <<>> THEN {Nil}
    ELSE {[id |-> d.reading_status[i].book_id, title |-> RowOf(d.books, "id", d.reading_status[i].book_id).title,
           current_page |-> d.reading_status[i].current_page, last_read_at |-> d.reading_status[i].last_read_at] :
          i \in {k \in 1..Len(d.reading_status) :
                    /\ HasRow(d.books, "id", d.reading_status[k].book_id)
                    /\ \A j \in 1..Len(d.reading_status) :
                            HasRow(d.books, "id", d.reading_status[j].book_id) =>
                                d.reading_status[j].last_read_at <= d.reading_status[k].last_read_at}}

\* GET /books/current; the request before it, when it was a POST /events, is
\* remembered
GetCurrent ==
    /\ \E r \in getCurrentReading(db) :
          last' = [op |-> "current", result |-> r, prev |-> IF last.op = "post" THEN last ELSE [op |-> "none"]]
    /\ UNCHANGED <<clientVars, deviceVars, eventsVars, sdb, requests, obsVars>>

----------------------------------------------------------------------------
(* The plugin: recorder and transport (main.lua) *)

\* generateSessionId: the n-th id drawn ("1", "2", ...); ids drawn are distinct
generateSessionId(n) == <<48 + n>>

\* a payload table without the session id
PayloadNoSession(event_type) ==
    [title |-> IF doc_title # Nil THEN doc_title ELSE Unknown, author |-> Unknown, isbn |-> Nil,
     current_page |-> doc_page, total_pages |-> TotalPages, progress |-> 0,
     session_id |-> Nil, event_type |-> event_type]

\* the payload table syncStatus builds. percent_finished has not been saved in
\* doc_settings yet, authors and isbn are not set in doc_props.
Payload(event_type) ==
    [title |-> IF doc_title # Nil THEN doc_title ELSE Unknown,
     author |-> Unknown,
     isbn |-> Nil,
     current_page |-> doc_page,
     total_pages |-> TotalPages,
     progress |-> 0,
     session_id |-> current_session_id,
     event_type |-> event_type]

isOnline == online

\* what a handler step leaves in `last`
Did(op, emitted, payload, opened) ==
    [op |-> op, emitted |-> emitted, payload |-> payload, opened |-> opened,
     prev_max |-> max_page_reached, gap |-> now - last_sync_time]

\* a syncStatus without the throttle
Unthrottled(force, t, last_sync) == FALSE

\* a throttle that holds forced events back too
ThrottledForced(force, t, last_sync) == (t - last_sync) < MIN_SYNC_GAP

\* the throttle of syncStatus: not forced and less than MIN_SYNC_GAP seconds
\* after the last sync that went through
Throttled(force, t, last_sync) == ~force /\ (t - last_sync) < MIN_SYNC_GAP

\* an entry of page_log: an update to `page`, whether it emitted an event,
\* the seconds since the last sync that went through and the time of the update
Turn(page, emitted) == [page |-> page, emitted |-> emitted, gap |-> now - last_sync_time, at |-> now]

\* syncStatus(force, event_type) up to the return of enqueueEvent inside
\* attemptSync, for the payload built from the document state; flushQueue
\* follows as the next step (pc = nextpc) when the device is online.
\* opened: io.open(path, "a") returned a file.
syncStatus(force, payload, opened, op, nextpc) ==
    IF Throttled(force, now, last_sync_time)
    THEN /\ UNCHANGED <<last_sync_time, queue_file, enqueued, pending, pc>>
         /\ last' = Did(op, FALSE, payload, FALSE)
    ELSE /\ last_sync_time' = now
         /\ queue_file' = enqueueEvent(queue_file, payload, opened)
         /\ enqueued' = enqueued + 1
         /\ pending' = IF opened THEN Append(pending, payload) ELSE pending
         /\ pc' = IF isOnline THEN nextpc ELSE "idle"
         /\ last' = Did(op, TRUE, payload, opened)

\* ReadingStatus:init when a document is opened at `page`: a startup flush
\* is scheduled STARTUP_DELAY seconds ahead
PluginInit(title, page) ==
    /\ ~running /\ pc = "idle"
    /\ opened_sessions < MaxSessions
    /\ running' = TRUE
    /\ ready' = FALSE
    /\ doc_title' = title
    /\ doc_page' = page
    /\ startup_due' = startup_due \cup {now + STARTUP_DELAY}
    /\ last' = [op |-> "init"]
    /\ UNCHANGED <<last_sync_time, current_session_id, max_page_reached, pc>>
    /\ UNCHANGED <<deviceVars, eventsVars, sdb, requests, obsVars>>

\* ReadingStatus:onReaderReady
OnReaderReady(opened) ==
    /\ running /\ ~ready /\ pc = "idle"
    /\ enqueued < MaxEnqueued
    /\ ready' = TRUE
    /\ opened_sessions' = opened_sessions + 1
    /\ current_session_id' = generateSessionId(opened_sessions + 1)
    /\ max_page_reached' = doc_page
    /\ page_log' = <<Turn(doc_page, FALSE)>>
    /\ syncStatus(TRUE, [Payload(SESSION_START) EXCEPT !.session_id = current_session_id'], opened, "ready", "flush")
    /\ UNCHANGED <<running, doc_title, doc_page, startup_due>>
    /\ UNCHANGED <<now, online, eventsVars, sdb, requests, dropped, restarts, served, replays>>

\* an onPageUpdate that follows the page shown in either direction
OnPageUpdateAnyWay(pageno, opened, turns) ==
    /\ running /\ ready /\ pc = "idle"
    /\ enqueued < MaxEnqueued
    /\ Len(page_log) <= turns
    /\ doc_page' = pageno
    /\ IF pageno # max_page_reached
       THEN /\ max_page_reached' = pageno
            /\ syncStatus(FALSE, [Payload(PAGE_TURN) EXCEPT !.current_page = pageno], opened, "page", "flush")
       ELSE /\ UNCHANGED <<max_page_reached, last_sync_time, queue_file, enqueued, pending, pc>>
            /\ last' = Did("page", FALSE, [Payload(PAGE_TURN) EXCEPT !.current_page = pageno], FALSE)
    /\ page_log' = Append(page_log, Turn(pageno, enqueued' > enqueued))
    /\ UNCHANGED <<running, ready, current_session_id, doc_title, startup_due>>
    /\ UNCHANGED <<now, online, eventsVars, sdb, requests, dropped, opened_sessions, restarts, served, replays>>

\* ReadingStatus:onPageUpdate(pageno), the document being at pageno; at most
\* `turns` updates of a session are followed
OnPageUpdate(pageno, opened, turns) ==
    /\ running /\ ready /\ pc = "idle"
    /\ enqueued < MaxEnqueued
    /\ Len(page_log) <= turns
    /\ doc_page' = pageno
    /\ IF pageno > max_page_reached
       THEN /\ max_page_reached' = pageno
            /\ syncStatus(FALSE, [Payload(PAGE_TURN) EXCEPT !.current_page = pageno], opened, "page", "flush")
       ELSE /\ UNCHANGED <<max_page_reached, last_sync_time, queue_file, enqueued, pending, pc>>
            /\ last' = Did("page", FALSE, [Payload(PAGE_TURN) EXCEPT !.current_page = pageno], FALSE)
    /\ page_log' = Append(page_log, Turn(pageno, enqueued' > enqueued))
    /\ UNCHANGED <<running, ready, current_session_id, doc_title, startup_due>>
    /\ UNCHANGED <<now, online, eventsVars, sdb, requests, dropped, opened_sessions, restarts, served, replays>>

\* ReadingStatus:onCloseDocument. Online, the handler goes on at
\* "flush_close" (flushQueue, then current_session_id = nil); offline it
\* ends here. The plugin instance goes away with the document.
OnCloseDocument(opened) ==
    /\ running /\ ready /\ pc = "idle"
    /\ enqueued < MaxEnqueued
    /\ syncStatus(TRUE, Payload(SESSION_END), opened, "close", "flush_close")
    /\ current_session_id' = IF isOnline THEN current_session_id ELSE Nil
    /\ running' = isOnline
    /\ ready' = isOnline
    /\ page_log' = <<>>
    /\ UNCHANGED <<max_page_reached, doc_title, doc_page, startup_due>>
    /\ UNCHANGED <<now, online, eventsVars, sdb, requests, dropped, opened_sessions, restarts, served, replays>>

\* the answer as the plugin gets it: the status is nil when the answer is lost
Received(resp, link) == IF link = "ok" THEN resp ELSE [resp EXCEPT !.status = NULL]

\* a request the worker never runs: no status, or the error status of the edge
NotRun(link) ==
    [db |-> db, results |-> <<>>, ok |-> FALSE, processed |-> 0, succeeded |-> 0, failed |-> 0,
     status |-> IF link = "edge_400" THEN 400 ELSE IF link = "edge_500" THEN 500 ELSE NULL]

\* one POST of the whole list: the worker's run and the status http.request
\* returns (NULL: none), for what the request meets on its way
Exchange(events, adv, link, secret) ==
    IF link \in {"ok", "reply_lost"}
    THEN Received(fetchEvents(db, secret, Bearer(AUTH_TOKEN), [array |-> events], srv_now, adv), link)
    ELSE NotRun(link)

\* a sendEventsToServer that is true on any status that came back
sendEventsAnswered(status) == status # NULL

\* sendEventsToServer: true exactly on status 200
sendEventsToServer(status) == status = 200

\* the events of a sent list the worker's results mark as failed
FailedOf(events, results) == {events[i] : i \in {k \in 1..Len(events) : k <= Len(results) /\ ~results[k]}}

\* flushQueue after loadQueue gave a non-empty list and the POST gave x:
\* the queue is cleared on status 200 and kept otherwise.
\* ran: the worker handled the events; shift: its clock's advance
Flushed(events, x, opened, ran, shift) ==
    /\ ran /\ ~(sendEventsToServer(x.status) /\ opened) => replays < MaxReplays
    /\ srv_now + shift <= MaxSrvTime
    /\ ran \/ shift = 0
    /\ replays' = IF ran /\ ~(sendEventsToServer(x.status) /\ opened) THEN replays + 1 ELSE replays
    /\ db' = x.db
    /\ srv_now' = srv_now + shift
    /\ queue_file' = IF sendEventsToServer(x.status) THEN clearQueue(queue_file, opened) ELSE queue_file
    /\ pending' = IF sendEventsToServer(x.status) /\ opened THEN <<>> ELSE pending
    /\ dropped' = IF sendEventsToServer(x.status) /\ opened THEN dropped \cup FailedOf(events, x.results) ELSE dropped
    /\ last' = [op |-> "flush", sent |-> events, requested |-> TRUE, status |-> x.status,
                failed |-> x.failed, before |-> queue_file, cleared |-> sendEventsToServer(x.status),
                opened |-> opened, pending |-> pending, dropped |-> dropped]

\* flushQueue with nothing to send: returns true without a request
NothingToFlush ==
    /\ UNCHANGED <<queue_file, eventsVars, pending, dropped, replays>>
    /\ last' = [op |-> "flush", sent |-> <<>>, requested |-> FALSE, status |-> NULL,
                failed |-> 0, before |-> queue_file, cleared |-> FALSE,
                opened |-> TRUE, pending |-> pending, dropped |-> dropped]

\* flushQueue, called by attemptSync or by the startup callback.
\* link: what the request meets; secret: env.AUTH_TOKEN of the worker at the
\* time of the request; adv: how the worker's clock advances during the
\* request; opened: io.open(path, "w") of clearQueue returned a file.
FlushQueue(opened, link, secret) ==
    /\ pc \in {"flush", "flush_close"}
    /\ IF Len(loadQueue(queue_file)) = 0
       THEN /\ link = "ok" /\ opened /\ secret = AUTH_TOKEN
            /\ NothingToFlush
       ELSE \E adv \in [1..Len(loadQueue(queue_file)) -> {0, 1}] :
              \E x \in {Exchange(loadQueue(queue_file), adv, link, secret)} :
                Flushed(loadQueue(queue_file), x, opened,
                        link \in {"ok", "reply_lost"} /\ withAuth(Bearer(AUTH_TOKEN), secret),
                        Sum(adv, Len(loadQueue(queue_file))))
    /\ pc' = "idle"
    /\ current_session_id' = IF pc = "flush_close" THEN Nil ELSE current_session_id
    /\ running' = IF pc = "flush_close" THEN FALSE ELSE running
    /\ ready' = IF pc = "flush_close" THEN FALSE ELSE ready
    /\ UNCHANGED <<last_sync_time, max_page_reached, doc_title, doc_page, startup_due>>
    /\ UNCHANGED <<now, online, sdb, requests, enqueued, opened_sessions, page_log, restarts, served>>

\* the callback init scheduled: flushQueue when online
StartupFlush(t) ==
    /\ pc = "idle"
    /\ t \in startup_due /\ now >= t
    /\ startup_due' = startup_due \ {t}
    /\ pc' = IF isOnline THEN "flush" ELSE "idle"
    /\ last' = [op |-> "startup", online |-> isOnline]
    /\ UNCHANGED <<running, ready, last_sync_time, current_session_id, max_page_reached, doc_title, doc_page>>
    /\ UNCHANGED <<deviceVars, eventsVars, sdb, requests, obsVars>>

\* the KOReader process ends without a flush and is started again: the
\* module-level locals and the scheduled callbacks are gone, the file stays
Restart ==
    /\ restarts < MaxRestarts
    /\ restarts' = restarts + 1
    /\ running' = FALSE
    /\ ready' = FALSE
    /\ last_sync_time' = 0
    /\ current_session_id' = Nil
    /\ max_page_reached' = 0
    /\ startup_due' = {}
    /\ pc' = "idle"
    /\ page_log' = <<>>
    /\ last' = [op |-> "restart"]
    /\ UNCHANGED <<doc_title, doc_page>>
    /\ UNCHANGED <<deviceVars, eventsVars, sdb, requests, enqueued, pending, dropped, opened_sessions, served, replays>>

\* the device clock advances by d seconds
Tick(d, horizon) ==
    /\ pc = "idle"
    /\ now + d <= Epoch + horizon
    /\ now' = now + d
    /\ last' = [op |-> "env"]
    /\ UNCHANGED <<clientVars, online, queue_file, eventsVars, sdb, requests, obsVars>>

\* the reader stays on the page for d seconds while the throttle is closed.
\* (The clock is read by the throttle and by the startup callback only, so it
\* is advanced where one of them can see it.)
ReadFor(d, horizon) ==
    /\ ready /\ now - last_sync_time < MIN_SYNC_GAP
    /\ Tick(d, horizon)

\* the reader stays on the page just shown for d seconds
StayOnPage(d, horizon) ==
    /\ ready /\ last.op # "env"
    /\ Tick(d, horizon)

\* the device gains or loses connectivity
SetOnline(b) ==
    /\ pc = "idle"
    /\ b # online
    /\ online' = b
    /\ last' = [op |-> "env"]
    /\ UNCHANGED <<clientVars, now, queue_file, eventsVars, sdb, requests, obsVars>>

----------------------------------------------------------------------------
(* /sync-stats worker: the store and handleSyncStats (worker.js) *)

EmptySDB == [book |-> <<>>, page_stat_data |-> <<>>, sync_state |-> <<>>]

\* the handleSyncStats calls that can be in progress at once, and a slot in
\* which none is
Slots == {1, 2}
Idle == [pc |-> "idle", data |-> Nil, existingBook |-> NULL, bookId |-> NULL, totals |-> Nil]

\* the columns on which page_stat_data is unique: (book, page, timestamp)
PageStatKey(row) == <<row.id_book, row.page, row.start_time>>

\* a plain INSERT INTO page_stat_data, on a table without the unique key
InsertStat(rows, row) == Append(rows, row)

\* INSERT OR IGNORE INTO page_stat_data: the row is added unless a row with
\* its key is there
InsertOrIgnoreStat(rows, row) ==
    IF \E i \in 1..Len(rows) : PageStatKey(rows[i]) = PageStatKey(row) THEN rows ELSE Append(rows, row)

\* db.batch of the inserts bound from page_stats, in order, for book bookId
RECURSIVE InsertStats(_, _, _)
InsertStats(rows, bookId, stats) ==
    IF stats = <<>> THEN rows
    ELSE InsertStats(InsertOrIgnoreStat(rows, [id_book |-> bookId, page |-> Head(stats).page,
                        start_time |-> Head(stats).start_time, duration |-> Head(stats).duration,
                        total_pages |-> Head(stats).total_pages]),
                     bookId, Tail(stats))

\* SELECT id, cover_url FROM book WHERE md5 = ? (.first())
BookOfMd5(d, md5) == RowOf(d.book, "md5", md5)

\* book.pages || null
PagesOf(book) == IF TruthyNum(book.pages) THEN book.pages ELSE NULL

\* an INSERT that stores nothing
StmtInsertNothing(d, book, t, cover) == d

\* INSERT INTO book (title, authors, pages, md5, cover_url, last_open): the
\* new row gets the next rowid
StmtInsertBook(d, book, t, cover) ==
    [d EXCEPT !.book = Append(@,
        [id |-> Len(@) + 1, title |-> book.title,
         authors |-> IF Truthy(book.authors) THEN book.authors ELSE Nil,
         pages |-> PagesOf(book), md5 |-> book.md5, cover_url |-> cover, last_open |-> t,
         total_read_pages |-> NULL, total_read_time |-> NULL])]

\* an UPDATE that sets pages = ? without the COALESCE
StmtUpdateBookPlain(d, bookId, book, t) ==
    [d EXCEPT !.book = [i \in 1..Len(@) |->
        IF @[i].id = bookId THEN [@[i] EXCEPT !.last_open = t, !.pages = PagesOf(book)] ELSE @[i]]]

\* UPDATE book SET last_open = ?, pages = COALESCE(?, pages) WHERE id = ?
StmtUpdateBook(d, bookId, book, t) ==
    [d EXCEPT !.book = [i \in 1..Len(@) |->
        IF @[i].id = bookId
        THEN [@[i] EXCEPT !.last_open = t, !.pages = IF PagesOf(book) # NULL THEN PagesOf(book) ELSE @]
        ELSE @[i]]]

\* a resolution that also stores the cover offered in an existing row
StmtRefreshCover(d, book, t, cover) ==
    IF HasRow(d.book, "md5", book.md5)
    THEN [d EXCEPT !.book = [i \in 1..Len(@) |->
            IF @[i].md5 = book.md5 THEN [@[i] EXCEPT !.last_open = t, !.cover_url = cover] ELSE @[i]]]
    ELSE [d EXCEPT !.book = Append(@,
            [id |-> Len(@) + 1, title |-> book.title,
             authors |-> IF Truthy(book.authors) THEN book.authors ELSE Nil,
             pages |-> PagesOf(book), md5 |-> book.md5, cover_url |-> cover, last_open |-> t,
             total_read_pages |-> NULL, total_read_time |-> NULL])]

\* the book of the request is resolved or created: a new row gets the next
\* rowid, the cover fetched now and last_open; an existing row gets last_open
\* and pages = COALESCE(?, pages)
StmtResolveBook(d, book, t, cover) ==
    IF HasRow(d.book, "md5", book.md5)
    THEN StmtUpdateBook(d, BookOfMd5(d, book.md5).id, book, t)
    ELSE StmtInsertBook(d, book, t, cover)

\* COUNT(page): the rows of the book, a page counted once per row
TotalReadRows(rows, bookId) == Cardinality({k \in 1..Len(rows) : rows[k].id_book = bookId})

\* COUNT(DISTINCT page) and COALESCE(SUM(duration), 0) over the book's rows
TotalReadPages(rows, bookId) == Cardinality({rows[i].page : i \in {k \in 1..Len(rows) : rows[k].id_book = bookId}})

RECURSIVE TotalReadTime(_, _)
TotalReadTime(rows, bookId) ==
    IF rows = <<>> THEN 0
    ELSE (IF Head(rows).id_book = bookId THEN Head(rows).duration ELSE 0) + TotalReadTime(Tail(rows), bookId)

\* SELECT COUNT(DISTINCT page), COALESCE(SUM(duration), 0) ... WHERE id_book = ?
SelectTotals(d, bookId) ==
    [total_read_pages |-> TotalReadPages(d.page_stat_data, bookId),
     total_read_time |-> TotalReadTime(d.page_stat_data, bookId)]

\* an UPDATE of the totals that counts the rows itself
StmtRecountTotals(d, bookId, totals) ==
    [d EXCEPT !.book = [i \in 1..Len(@) |->
        IF @[i].id = bookId
        THEN [@[i] EXCEPT !.total_read_pages = SelectTotals(d, bookId).total_read_pages,
                          !.total_read_time = SelectTotals(d, bookId).total_read_time]
        ELSE @[i]]]

\* UPDATE book SET total_read_pages = ?, total_read_time = ? WHERE id = ?
StmtUpdateTotals(d, bookId, totals) ==
    [d EXCEPT !.book = [i \in 1..Len(@) |->
        IF @[i].id = bookId
        THEN [@[i] EXCEPT !.total_read_pages = totals.total_read_pages,
                          !.total_read_time = totals.total_read_time]
        ELSE @[i]]]

\* the totals SELECTed and then written, with nothing in between
StmtTotals(d, bookId) == StmtUpdateTotals(d, bookId, SelectTotals(d, bookId))

\* the page_stats part, run when the list is not empty: the batch of inserts,
\* then the totals
StmtPageStats(d, bookId, stats) ==
    IF Len(stats) > 0
    THEN StmtTotals([d EXCEPT !.page_stat_data = InsertStats(@, bookId, stats)], bookId)
    ELSE d

RECURSIVE MaxStart(_)
MaxStart(stats) == IF Len(stats) = 1 THEN stats[1].start_time ELSE Max(Head(stats).start_time, MaxStart(Tail(stats)))

\* the greatest start_time of the batch, else last_sync_time || now
NewSyncTime(data, t) ==
    IF Len(data.page_stats) > 0 THEN MaxStart(data.page_stats)
    ELSE IF TruthyNum(data.last_sync_time) THEN data.last_sync_time ELSE t

\* INSERT INTO sync_state ... ON CONFLICT(book_md5) DO UPDATE SET last_sync_time
StmtSyncState(d, md5, syncTime) ==
    IF HasRow(d.sync_state, "book_md5", md5)
    THEN [d EXCEPT !.sync_state = [i \in 1..Len(@) |->
            IF @[i].book_md5 = md5 THEN [@[i] EXCEPT !.last_sync_time = syncTime] ELSE @[i]]]
    ELSE [d EXCEPT !.sync_state = Append(@, [book_md5 |-> md5, last_sync_time |-> syncTime])]

\* the statements after the book is resolved, for the store d that holds it
AfterBook(d, data, t) ==
    StmtSyncState(StmtPageStats(d, BookOfMd5(d, data.book.md5).id, data.page_stats),
                  data.book.md5, NewSyncTime(data, t))

\* handleSyncStats(db, data) run at worker time t (seconds); cover is what
\* fetchCoverUrl returns if it is called
\* fetched: fetchCoverUrl was called, which is when no row has the md5
handleSyncStats(d, data, t, cover) ==
    IF ~Truthy(data.book.md5) \/ ~Truthy(data.book.title)
    THEN [db |-> d, ok |-> FALSE, fetched |-> FALSE]
    ELSE [db |-> AfterBook(StmtResolveBook(d, data.book, t, cover), data, t), ok |-> TRUE,
          fetched |-> ~HasRow(d.book, "md5", data.book.md5)]

\* fetch for POST /sync-stats: 401 without running the handler, 400 when the
\* handler throws, else { ok: true }
fetchSyncStats(d, secret, authHeader, data, t, cover) ==
    IF ~withAuth(authHeader, secret)
    THEN [db |-> d, status |-> 401, ok |-> FALSE, handled |-> 0, fetched |-> FALSE]
    ELSE The({[db |-> r.db, status |-> IF r.ok THEN 200 ELSE 400, ok |-> r.ok, handled |-> 1, fetched |-> r.fetched] :
              r \in {handleSyncStats(d, data, t, cover)}})

\* POST /sync-stats. The step before it, when it was a request too, is
\* remembered in `last`.
SyncStats(data, cover, authHeader, secret) ==
    /\ served < MaxServed
    /\ served' = served + 1
    /\ \E dt \in {0, 1} : srv_now' = srv_now + dt
    /\ \E x \in {fetchSyncStats(sdb, secret, authHeader, data, srv_now', cover)} :
          /\ sdb' = x.db
          /\ last' = [op |-> "stats", data |-> data, ok |-> x.ok, status |-> x.status, handled |-> x.handled,
                      authHeader |-> authHeader, secret |-> secret, cover |-> cover, fetched |-> x.fetched,
                      before |-> sdb, again |-> last.op = "stats" /\ last.data = data]
    /\ UNCHANGED <<clientVars, deviceVars, db, requests, enqueued, pending, dropped, opened_sessions, page_log, restarts, replays>>

\* the row of the answer for book row b joined with page_stat_data row k
\* (last_read_at, the start_time as text, and the totals are left out)
Joined(d, b, k) ==
    [id |-> d.book[b].id, title |-> d.book[b].title, total_pages |-> d.book[b].pages,
     current_page |-> d.page_stat_data[k].page]

\* a current book that is the book opened last, with any of its rows
getCurrentLastOpened(d) ==
    IF d.page_stat_data = <<>> THEN {Nil}
    ELSE {Joined(d, p[1], p[2]) :
          p \in {q \in (1..Len(d.book)) \X (1..Len(d.page_stat_data)) :
                    /\ d.book[q[1]].id = d.page_stat_data[q[2]].id_book
                    /\ \A y \in 1..Len(d.book) : d.book[y].last_open <= d.book[q[1]].last_open}}

\* getCurrentReading of worker.js: page_stat_data joined with book, ORDER BY
\* p.start_time DESC LIMIT 1. Each row with the greatest start_time is a
\* possible result; without rows the answer is an error (Nil).
getCurrentReadingOfStats(d) ==
    IF d.page_stat_data = <<>> THEN {Nil}
    ELSE {Joined(d, p[1], p[2]) :
          p \in {q \in (1..Len(d.book)) \X (1..Len(d.page_stat_data)) :
                    /\ d.book[q[1]].id = d.page_stat_data[q[2]].id_book
                    /\ \A y \in 1..Len(d.page_stat_data) :
                          d.page_stat_data[y].start_time <= d.page_stat_data[q[2]].start_time}}

\* GET /books/current of worker.js; the request before it, when it was a
\* POST /sync-stats, is remembered
GetCurrentOfStats ==
    /\ \E r \in getCurrentReadingOfStats(sdb) :
          last' = [op |-> "current_stats", result |-> r, prev |-> IF last.op = "stats" THEN last ELSE [op |-> "none"]]
    /\ UNCHANGED <<clientVars, deviceVars, eventsVars, sdb, requests, obsVars>>

\* handleSyncStats statement by statement, for calls that run at the same
\* time in the slots: every await is a point where another call can run.
ReqFrame == UNCHANGED <<clientVars, deviceVars, eventsVars, enqueued, pending, dropped, opened_sessions, page_log, restarts, replays>>

\* a call begins with payload data: the checks, then the SELECT of the book
ReqBegin(r, data) ==
    /\ requests[r].pc \in {"idle", "done", "failed", "interrupted"}
    /\ served < MaxPosts
    /\ served' = served + 1
    /\ IF ~Truthy(data.book.md5) \/ ~Truthy(data.book.title)
       THEN requests' = [requests EXCEPT ![r] = [Idle EXCEPT !.pc = "failed", !.data = data]]
       ELSE requests' = [requests EXCEPT ![r] = [Idle EXCEPT !.pc = "book", !.data = data,
                    !.existingBook = IF HasRow(sdb.book, "md5", data.book.md5)
                                     THEN BookOfMd5(sdb, data.book.md5).id ELSE NULL]]
    /\ last' = [op |-> "req", r |-> r, step |-> "begin", before |-> sdb]
    /\ UNCHANGED sdb
    /\ ReqFrame

\* the INSERT of a new book with the cover fetched, or the UPDATE of the book
\* found. unique: the book table has a unique key on md5, so that the INSERT
\* of an md5 stored meanwhile throws (the schema of book is not known)
ReqWriteBook(r, cover, unique) ==
    /\ requests[r].pc = "book"
    /\ unique => requests[r].existingBook = NULL /\ HasRow(sdb.book, "md5", requests[r].data.book.md5)
    /\ IF requests[r].existingBook # NULL
       THEN /\ sdb' = StmtUpdateBook(sdb, requests[r].existingBook, requests[r].data.book, srv_now)
            /\ requests' = [requests EXCEPT ![r] = [requests[r] EXCEPT !.bookId = requests[r].existingBook,
                            !.pc = IF Len(requests[r].data.page_stats) > 0 THEN "stats" ELSE "sync_state"]]
       ELSE IF unique
       THEN /\ UNCHANGED sdb
            /\ requests' = [requests EXCEPT ![r] = [requests[r] EXCEPT !.pc = "failed"]]
       ELSE /\ sdb' = StmtInsertBook(sdb, requests[r].data.book, srv_now, cover)
            /\ requests' = [requests EXCEPT ![r] = [requests[r] EXCEPT !.bookId = Len(sdb.book) + 1,
                            !.pc = IF Len(requests[r].data.page_stats) > 0 THEN "stats" ELSE "sync_state"]]
    /\ last' = [op |-> "req", r |-> r, step |-> "book", before |-> sdb]
    /\ UNCHANGED served
    /\ ReqFrame

\* db.batch of the INSERT OR IGNORE statements
ReqInsertStats(r) ==
    /\ requests[r].pc = "stats"
    /\ sdb' = [sdb EXCEPT !.page_stat_data = InsertStats(@, requests[r].bookId, requests[r].data.page_stats)]
    /\ requests' = [requests EXCEPT ![r] = [requests[r] EXCEPT !.pc = "totals"]]
    /\ last' = [op |-> "req", r |-> r, step |-> "stats", before |-> sdb]
    /\ UNCHANGED served
    /\ ReqFrame

\* the SELECT of the totals
ReqSelectTotals(r) ==
    /\ requests[r].pc = "totals"
    /\ requests' = [requests EXCEPT ![r] = [requests[r] EXCEPT !.pc = "update_totals", !.totals = SelectTotals(sdb, requests[r].bookId)]]
    /\ last' = [op |-> "req", r |-> r, step |-> "totals", before |-> sdb]
    /\ UNCHANGED <<sdb, served>>
    /\ ReqFrame

\* the UPDATE of the totals with what the SELECT returned
ReqUpdateTotals(r) ==
    /\ requests[r].pc = "update_totals"
    /\ sdb' = StmtUpdateTotals(sdb, requests[r].bookId, requests[r].totals)
    /\ requests' = [requests EXCEPT ![r] = [requests[r] EXCEPT !.pc = "sync_state"]]
    /\ last' = [op |-> "req", r |-> r, step |-> "update_totals", before |-> sdb]
    /\ UNCHANGED served
    /\ ReqFrame

\* the upsert of sync_state, after which the call returns
ReqSyncState(r) ==
    /\ requests[r].pc = "sync_state"
    /\ sdb' = StmtSyncState(sdb, requests[r].data.book.md5, NewSyncTime(requests[r].data, srv_now))
    /\ requests' = [requests EXCEPT ![r] = [requests[r] EXCEPT !.pc = "done"]]
    /\ last' = [op |-> "req", r |-> r, step |-> "sync_state", before |-> sdb]
    /\ UNCHANGED served
    /\ ReqFrame

\* the call is ended between two statements (the invocation is cancelled or
\* exceeds its limits): what it has written stays
ReqInterrupt(r) ==
    /\ requests[r].pc \in {"book", "stats", "totals", "update_totals", "sync_state"}
    /\ requests' = [requests EXCEPT ![r] = [requests[r] EXCEPT !.pc = "interrupted"]]
    /\ last' = [op |-> "interrupt", r |-> r, at |-> requests[r].pc, before |-> sdb]
    /\ UNCHANGED <<sdb, served>>
    /\ ReqFrame

\* the payloads of POST /sync-stats
Md5s == {<<109, 49>>, <<109, 50>>, EmptyStr}
Stat(page, start_time, duration) ==
    [page |-> page, start_time |-> start_time, duration |-> duration, total_pages |-> TotalPages]
PageStat == {Stat(1, 10, 5), Stat(1, 10, 7), Stat(2, 10, 5), Stat(1, 20, 5)}
MaxStats == 2
StatLists == UNION {[1..n -> PageStat] : n \in 0..MaxStats}
StatsPayloads ==
    [book : [md5 : Md5s, title : {TitleA}, authors : {Nil}, pages : {NULL, TotalPages}],
     page_stats : StatLists, last_sync_time : {NULL}]
Covers == {Nil, <<99>>}

\* the events a client posts to /events: with and without a title, with and
\* without a session id, of each type, at two pages
Events ==
    [title : {TitleA, <<66>>, Nil}, author : {Unknown}, isbn : {Nil}, current_page : {40, 50},
     total_pages : {TotalPages}, progress : {0}, session_id : {Nil, generateSessionId(1)},
     event_type : {SESSION_START, SESSION_END, PAGE_TURN}]
\* the Authorization headers of a request: the right one, none, the bare
\* token, and a longer token
Headers == {Bearer(AUTH_TOKEN), Nil, AUTH_TOKEN, Bearer(AUTH_TOKEN \o AUTH_TOKEN)}
\* the payloads a client posts to /sync-stats: with and without md5 and title
WorkerPayloads ==
    [book : [md5 : {<<109, 49>>, EmptyStr}, title : {TitleA, Nil}, authors : {Nil}, pages : {TotalPages}],
     page_stats : {<<>>, <<Stat(1, 10, 5)>>}, last_sync_time : {NULL}]

\* the events of the bodies where batches are studied
BatchEvents ==
    [title : {TitleA, Nil}, author : {Unknown}, isbn : {Nil}, current_page : {40, 50},
     total_pages : {TotalPages}, progress : {0}, session_id : {generateSessionId(1)}, event_type : {PAGE_TURN}]

\* the capacity C of the offline queue
QUEUE_CAPACITY == 2

----------------------------------------------------------------------------
(* Specifications *)

Init ==
    /\ running = FALSE
    /\ ready = FALSE
    /\ last_sync_time = 0
    /\ current_session_id = Nil
    /\ max_page_reached = 0
    /\ doc_title = Nil
    /\ doc_page = 0
    /\ startup_due = {}
    /\ pc = "idle"
    /\ now = Epoch
    /\ online = FALSE
    /\ queue_file = <<>>
    /\ db = EmptyDB
    /\ srv_now = 0
    /\ sdb = EmptySDB
    /\ requests = [r \in Slots |-> Idle]
    /\ enqueued = 0
    /\ pending = <<>>
    /\ dropped = {}
    /\ opened_sessions = 0
    /\ page_log = <<>>
    /\ restarts = 0
    /\ served = 0
    /\ replays = 0
    /\ last = [op |-> "none"]

\* the plugin, its queue file and the /events worker
Next ==
    \/ \E title \in Titles : PluginInit(title, 1)
    \/ \E opened \in BOOLEAN : OnReaderReady(opened)
    \/ \E pageno \in QueuePages, opened \in BOOLEAN : OnPageUpdate(pageno, opened, 1)
    \/ \E opened \in BOOLEAN : OnCloseDocument(opened)
    \/ \E opened \in BOOLEAN, link \in Links, secret \in Secrets : FlushQueue(opened, link, secret)
    \/ \E t \in startup_due : StartupFlush(t)
    \/ Restart
    \/ ReadFor(MIN_SYNC_GAP, MaxTime)
    \/ \E b \in BOOLEAN : SetOnline(b)

Spec == Init /\ [][Next]_vars

\* the recorder of a device that stays offline: sessions, page updates over
\* the pages of the document, and the clock
NextRecorder ==
    \/ PluginInit(TitleA, 1)
    \/ OnReaderReady(TRUE)
    \/ \E pageno \in DocPages : OnPageUpdate(pageno, TRUE, MaxTurns)
    \/ OnCloseDocument(TRUE)
    \/ \E d \in {MIN_SYNC_GAP - 1, MIN_SYNC_GAP} : ReadFor(d, 2 * MaxTime)

SpecRecorder == Init /\ [][NextRecorder]_vars

\* the recorder of a device that stays offline, with a reader who stays on a
\* page for a time of Dwells between two page updates
NextDwell ==
    \/ PluginInit(TitleA, 1)
    \/ OnReaderReady(TRUE)
    \/ \E pageno \in DocPages : OnPageUpdate(pageno, TRUE, 2)
    \/ OnCloseDocument(TRUE)
    \/ \E d \in Dwells : StayOnPage(d, 2 * (MAX_DWELL + 1))

SpecDwell == Init /\ [][NextDwell]_vars

\* flushQueue when the file can be written, the request arrives, the worker
\* holds the plugin's token and its answer comes back
FlushLive == FlushQueue(TRUE, "ok", AUTH_TOKEN)

\* a startup callback that is due runs
StartupLive == \E t \in startup_due : StartupFlush(t)

\* the clock goes on, at least until every scheduled callback is due
TimePasses == \E h \in {MaxTime} \cup {t - Epoch : t \in startup_due} : Tick(MIN_SYNC_GAP, h)

\* the plugin and a worker that answers, under the scheduling of the plugin:
\* a flush that was called runs, a scheduled callback runs when it is due.
\* What the reader and the network do is under no obligation.
NextLive ==
    \/ PluginInit(TitleA, 1)
    \/ OnReaderReady(TRUE)
    \/ \E pageno \in QueuePages : OnPageUpdate(pageno, TRUE, 1)
    \/ OnCloseDocument(TRUE)
    \/ FlushLive
    \/ StartupLive
    \/ Restart
    \/ TimePasses
    \/ \E b \in BOOLEAN : SetOnline(b)

SpecLive == Init /\ [][NextLive]_vars /\ WF_vars(FlushLive) /\ WF_vars(StartupLive) /\ WF_vars(TimePasses)

\* the /sync-stats worker, one request after the other
NextStats == \E data \in StatsPayloads, cover \in Covers : SyncStats(data, cover, Bearer(AUTH_TOKEN), AUTH_TOKEN)

\* the two workers posted to by any client: single events to /events and
\* payloads to /sync-stats, with and without the token
NextWorkers ==
    \/ \E event \in Events, authHeader \in Headers, dt \in {0, 1} :
          PostEvents(event, authHeader, AUTH_TOKEN, dt)
    \/ \E data \in WorkerPayloads, authHeader \in Headers, secret \in Secrets :
          SyncStats(data, Nil, authHeader, secret)

SpecWorkers == Init /\ [][NextWorkers]_vars

\* the /events worker receiving page turns of two sessions on two books in
\* any order, and asked for the current book
NextCurrent ==
    \/ \E event \in [title : {TitleA, <<66>>}, author : {Unknown}, isbn : {Nil}, current_page : {40},
                      total_pages : {TotalPages}, progress : {0},
                      session_id : {generateSessionId(1), generateSessionId(2)}, event_type : {PAGE_TURN}],
           dt \in {0, 1} :
          PostEvents(event, Bearer(AUTH_TOKEN), AUTH_TOKEN, dt)
    \/ GetCurrent

SpecCurrent == Init /\ [][NextCurrent]_vars

\* the /events worker receiving bodies of up to MaxBatch page turns, with and
\* without a title, as an array or as a single object
NextBatch ==
    \/ \E n \in 0..MaxBatch : \E events \in [1..n -> BatchEvents], adv \in [1..n -> {0, 1}] :
          PostBatch([array |-> events], adv)
    \/ \E event \in BatchEvents : PostBatch([object |-> event], <<>>)

SpecBatch == Init /\ [][NextBatch]_vars

\* the /sync-stats worker running up to two calls of handleSyncStats at the
\* same time, statement by statement
NextConcurrent ==
    \E r \in Slots :
        \/ \E data \in [book : [md5 : {<<109, 49>>}, title : {TitleA}, authors : {Nil}, pages : {TotalPages}],
                        page_stats : {<<>>, <<Stat(1, 10, 5)>>, <<Stat(2, 20, 7)>>}, last_sync_time : {NULL}] :
              ReqBegin(r, data)
        \/ \E unique \in BOOLEAN : ReqWriteBook(r, Nil, unique)
        \/ ReqInsertStats(r)
        \/ ReqSelectTotals(r)
        \/ ReqUpdateTotals(r)
        \/ ReqSyncState(r)
        \/ ReqInterrupt(r)

SpecConcurrent == Init /\ [][NextConcurrent]_vars

SpecStats == Init /\ [][NextStats]_vars

\* both workers receiving events and payloads of one book that carry no page
\* count, a page count of 0, or one of two page counts
NextPages ==
    \/ \E event \in [title : {TitleA}, author : {Unknown}, isbn : {Nil}, current_page : {40},
                      total_pages : {NULL, 0, TotalPages, TotalPages + 1}, progress : {0},
                      session_id : {generateSessionId(1)}, event_type : {PAGE_TURN}],
           dt \in {0, 1} :
          PostEvents(event, Bearer(AUTH_TOKEN), AUTH_TOKEN, dt)
    \/ \E data \in [book : [md5 : {<<109, 49>>}, title : {TitleA}, authors : {Nil},
                            pages : {NULL, 0, TotalPages, TotalPages + 1}],
                     page_stats : {<<>>}, last_sync_time : {NULL}] :
          SyncStats(data, Nil, Bearer(AUTH_TOKEN), AUTH_TOKEN)

SpecPages == Init /\ [][NextPages]_vars

\* the /events worker receiving the session_start and session_end events of
\* one session in any order and number
NextSessions ==
    \E event \in [title : {TitleA}, author : {Unknown}, isbn : {Nil}, current_page : {40, 50},
                   total_pages : {TotalPages}, progress : {0},
                   session_id : {generateSessionId(1)}, event_type : {SESSION_START, SESSION_END}],
       dt \in {0, 1} :
        PostEvents(event, Bearer(AUTH_TOKEN), AUTH_TOKEN, dt)

SpecSessions == Init /\ [][NextSessions]_vars

\* the /sync-stats worker receiving batches of two books, a newer and an
\* older one, in any order, and asked for the current book
NextCurrentOfStats ==
    \/ \E data \in [book : [md5 : {<<109, 49>>, <<109, 50>>}, title : {TitleA}, authors : {Nil}, pages : {TotalPages}],
                     page_stats : {<<Stat(1, 10, 5)>>, <<Stat(2, 20, 5)>>}, last_sync_time : {NULL}] :
          SyncStats(data, Nil, Bearer(AUTH_TOKEN), AUTH_TOKEN)
    \/ GetCurrentOfStats

SpecCurrentOfStats == Init /\ [][NextCurrentOfStats]_vars

----------------------------------------------------------------------------
(* Properties *)

\* the last record loadQueue returns from the file, Nil when there is none
LastQueued == IF loadQueue(queue_file) = <<>> THEN Nil ELSE loadQueue(queue_file)[Len(loadQueue(queue_file))]

\* the last step called enqueueEvent
Enqueueing == last.op \in {"ready", "page", "close"} /\ last.emitted

\* C1 (SpecStats): a /sync-stats request that repeats the payload of the
\* request before it inserts no row: page_stat_data is as the first run left
\* it, the same rows in the same number.
C1_IdempotentReplay ==
    last.op = "stats" /\ last.again => sdb.page_stat_data = last.before.page_stat_data

\* a payload with page_stats was accepted twice in a row and its rows are stored
C1_Replayed ==
    /\ last.op = "stats" /\ last.again /\ last.ok
    /\ Len(last.data.page_stats) >= 2
    /\ Len(sdb.page_stat_data) >= 1

\* C2 (Spec): every queued record is stored at most once: page_events never
\* holds more rows than records were passed to enqueueEvent (one handling of
\* a record inserts at most one row).
C2_StoredOnce == Len(db.page_events) <= enqueued

\* C3 (SpecLive): when the device ends up online for good, a queue that holds
\* records when the plugin is initialized after a restart is emptied later.
C3_EventuallyDelivered ==
    (<>[]online) =>
        [](last.op = "init" /\ restarts > 0 /\ loadQueue(queue_file) # <<>> => <>(loadQueue(queue_file) = <<>>))

\* C4 (Spec): a flushQueue step changes the queue file only when its request
\* was answered 200; when no status came back (unreachable, timeout) or the
\* status was 5xx the file is as before and a flush that follows loads the
\* records that were sent.
C4_ClearOnlyOn200 ==
    last.op = "flush" /\ last.requested =>
        /\ queue_file # last.before => last.status = 200
        /\ last.status \in {NULL, 500} => queue_file = last.before /\ loadQueue(queue_file) = last.sent

\* a flush sent records, got a 5xx answer and left the file alone
C4_Retained ==
    /\ last.op = "flush" /\ last.requested /\ last.status = 500
    /\ Len(last.sent) >= 1 /\ queue_file = last.before

\* C5 (Spec): after a flush whose request was answered 400 or 401 the queue
\* holds no record.
C5_RejectedCleared ==
    last.op = "flush" /\ last.requested /\ last.status \in {400, 401} => loadQueue(queue_file) = <<>>

C7_Bounded == Len(loadQueue(queue_file)) <= QUEUE_CAPACITY

\* C8 (Spec): every record passed to enqueueEvent is the last record loadQueue
\* returns from the queue file once enqueueEvent has returned.
C8_Durable == Enqueueing => LastQueued = last.payload

\* C9 (Spec): loadQueue returns the records written since the file was last
\* cleared, each once and in the order they were written; a flush that finds
\* records sends all of them in that order in its one request, and a flush
\* that does not clear leaves the file as loadQueue found it.
C9_LoadQueueAll ==
    /\ loadQueue(queue_file) = pending
    /\ last.op = "flush" /\ last.requested => last.sent = last.pending
    /\ last.op = "flush" /\ ~last.cleared => queue_file = last.before

\* a flush sent two records or more and kept them
C9_SentAll == last.op = "flush" /\ last.requested /\ Len(last.sent) >= 2 /\ ~last.cleared

\* C10 (SpecRecorder): a page update of a session emits an event exactly when
\* its page is greater than every page the session was at before and at
\* least MIN_SYNC_GAP seconds have passed since the last sync that went
\* through.
C10_ForwardAndSpaced ==
    \A i \in 2..Len(page_log) :
        page_log[i].emitted <=>
            /\ \A j \in 1..(i - 1) : page_log[i].page > page_log[j].page
            /\ page_log[i].gap >= MIN_SYNC_GAP

\* a session opened at page 1 went to 5, 3 and 8 and emitted at 5 and at 8
C10_Sequence1538 ==
    /\ Len(page_log) = 4
    /\ <<page_log[1].page, page_log[2].page, page_log[3].page, page_log[4].page>> = <<1, 5, 3, 8>>
    /\ <<page_log[2].emitted, page_log[3].emitted, page_log[4].emitted>> = <<TRUE, FALSE, TRUE>>

\* C10 as stated: a page update of a session emits an event exactly when its
\* page is greater than every page the session was at before.
C10_ForwardOnly ==
    \A i \in 2..Len(page_log) :
        page_log[i].emitted <=> \A j \in 1..(i - 1) : page_log[i].page > page_log[j].page

\* the seconds the reader stayed on the page that update i of the session left
DwellBefore(i) == page_log[i].at - page_log[i - 1].at

\* C11 (SpecDwell): a page update that moves the session forward emits an
\* event exactly when the reader stayed on the page left for at least
\* MIN_DWELL and at most MAX_DWELL seconds: 3 s is discarded, 5 s and 90 s
\* are accepted, 91 s is discarded.
C11_DwellFilter ==
    \A i \in 2..Len(page_log) :
        (\A j \in 1..(i - 1) : page_log[i].page > page_log[j].page) =>
            (page_log[i].emitted <=> MIN_DWELL <= DwellBefore(i) /\ DwellBefore(i) <= MAX_DWELL)

\* the last step was a request to /events that passed withAuth
Posted == last.op = "post" /\ withAuth(last.authHeader, last.secret)

\* C12 (SpecWorkers): an event without a title is rejected by handleUpdate
\* and a /sync-stats payload without book.md5 or without book.title is
\* rejected by handleSyncStats (answer 400); either leaves every table of
\* its store as it was.
C12_MissingFieldRejected ==
    /\ Posted /\ ~Truthy(last.event.title) => last.results = <<FALSE>> /\ db = last.before
    /\ last.op = "stats" /\ last.handled = 1 /\ (~Truthy(last.data.book.md5) \/ ~Truthy(last.data.book.title)) =>
            last.status = 400 /\ sdb = last.before

\* an event without a title was rejected by a worker whose store has rows
C12_TitlelessRejected ==
    /\ Posted /\ last.event.title = Nil /\ last.results = <<FALSE>>
    /\ Len(db.books) >= 1 /\ Len(db.page_events) >= 1

\* C13 (SpecWorkers): a session_start or session_end event without a
\* session_id is rejected and leaves every table of the store as it was.
C13_NoSessionIdRejected ==
    Posted /\ last.event.event_type \in {SESSION_START, SESSION_END} /\ last.event.session_id = Nil =>
        last.results = <<FALSE>> /\ db = last.before

\* C14 (SpecWorkers): a POST to /events or /sync-stats whose Authorization
\* header is missing or is not "Bearer " and the worker's AUTH_TOKEN is
\* answered 401, no event or payload is handled and the store is as before.
C14_Unauthorized401 ==
    /\ last.op = "post" /\ last.authHeader # Bearer(last.secret) =>
            last.status = 401 /\ last.results = <<>> /\ db = last.before
    /\ last.op = "stats" /\ last.authHeader # Bearer(last.secret) =>
            last.status = 401 /\ last.handled = 0 /\ sdb = last.before

\* a request with a longer token was answered 401 by a worker whose store has rows
C14_WrongTokenRefused ==
    /\ last.op = "post" /\ last.authHeader = Bearer(AUTH_TOKEN \o AUTH_TOKEN) /\ last.status = 401
    /\ Truthy(last.event.title) /\ Len(db.books) >= 1

\* C15 (SpecWorkers): events with the same title and author and no ISBN
\* resolve to one book id whatever was posted in between: books never holds
\* two rows with the same id nor two rows with the same title and author,
\* reading_status holds one row per books row, and the event just handled
\* has exactly one books row, whose id its reading_status row carries.
C15_StableBookId ==
    /\ \A i, j \in 1..Len(db.books) :
            (db.books[i].id = db.books[j].id \/
             (db.books[i].title = db.books[j].title /\ db.books[i].author = db.books[j].author)) => i = j
    /\ Len(db.reading_status) = Len(db.books)
    /\ \A i \in 1..Len(db.reading_status) : HasRow(db.books, "id", db.reading_status[i].book_id)
    /\ Posted /\ Truthy(last.event.title) =>
            /\ Cardinality({i \in 1..Len(db.books) : db.books[i].title = last.event.title}) = 1
            /\ Cardinality({i \in 1..Len(db.books) : db.books[i].id = RowOf(db.books, "title", last.event.title).id}) = 1
            /\ HasRow(db.reading_status, "book_id", RowOf(db.books, "title", last.event.title).id)

\* a book was posted, then another book, then the first book again
C15_SameBookAgain ==
    /\ Posted /\ served = 3 /\ last.results = <<TRUE>>
    /\ Len(db.books) = 2 /\ db.books[1].title = last.event.title
    /\ Len(db.page_events) = 3 /\ db.page_events[1].book_id = db.page_events[3].book_id
    /\ db.page_events[2].book_id # db.page_events[1].book_id

\* the session row was completed by a session_end
Ended(row) == row.ended_at # NULL

\* C16 (SpecWorkers): every session row completed by a session_end has
\* pages_read = max(0, end_page - start_page), and pages_read is never
\* negative in a row that has it.
C16_PagesReadClamped ==
    \A i \in 1..Len(db.sessions) :
        /\ Ended(db.sessions[i]) =>
                db.sessions[i].pages_read = (IF db.sessions[i].end_page > db.sessions[i].start_page
                                             THEN db.sessions[i].end_page - db.sessions[i].start_page ELSE 0)
        /\ db.sessions[i].pages_read = NULL \/ db.sessions[i].pages_read >= 0

\* a session started at page 50 was ended at page 40 with pages_read 0
C16_BackwardSession ==
    \E i \in 1..Len(db.sessions) :
        /\ Ended(db.sessions[i])
        /\ db.sessions[i].start_page = 50 /\ db.sessions[i].end_page = 40 /\ db.sessions[i].pages_read = 0

\* C17 (SpecWorkers): a session_start whose session id already has a session
\* row leaves that row as it was and changes no other stored state.
C17_DuplicateStartNoOp ==
    Posted /\ last.event.event_type = SESSION_START /\ HasRow(last.before.sessions, "id", last.event.session_id) =>
        /\ RowOf(db.sessions, "id", last.event.session_id) = RowOf(last.before.sessions, "id", last.event.session_id)
        /\ db = last.before

\* C18 (SpecWorkers): a session_end with a title and a session id, whose
\* session id has no session row, does not fail, and after it the store holds
\* a session row for that id with the end timestamp and the end page set.
C18_EndOnlyRecorded ==
    /\ Posted /\ last.event.event_type = SESSION_END
    /\ Truthy(last.event.title) /\ Truthy(last.event.session_id)
    /\ ~HasRow(last.before.sessions, "id", last.event.session_id)
    => /\ last.results = <<TRUE>>
       /\ HasRow(db.sessions, "id", last.event.session_id)
       /\ RowOf(db.sessions, "id", last.event.session_id).ended_at = last.at
       /\ RowOf(db.sessions, "id", last.event.session_id).end_page = last.event.current_page

\* C19 (SpecWorkers): once a session_end has set the end fields of a session
\* row (ended_at, end_page, pages_read), no later request changes them.
C19_EndSetOnce ==
    last.op = "post" =>
        \A i \in 1..Len(last.before.sessions) :
            Ended(last.before.sessions[i]) =>
                /\ db.sessions[i].ended_at = last.before.sessions[i].ended_at
                /\ db.sessions[i].end_page = last.before.sessions[i].end_page
                /\ db.sessions[i].pages_read = last.before.sessions[i].pages_read

\* C20 (SpecStats): a /sync-stats request calls fetchCoverUrl only when it
\* creates the book row, and no request changes the cover_url of a row that
\* was there before it.
C20_CoverFetchedOnce ==
    last.op = "stats" =>
        /\ last.fetched <=> Len(sdb.book) = Len(last.before.book) + 1
        /\ last.fetched => sdb.book[Len(sdb.book)].md5 = last.data.book.md5
        /\ \A i \in 1..Len(last.before.book) : sdb.book[i].cover_url = last.before.book[i].cover_url

\* a request for a book stored without a cover offered a cover and stored none
C20_CoverKept ==
    /\ last.op = "stats" /\ last.ok /\ ~last.fetched /\ last.cover # Nil
    /\ HasRow(last.before.book, "md5", last.data.book.md5)
    /\ RowOf(sdb.book, "md5", last.data.book.md5).cover_url = Nil

\* C21 (SpecCurrent): an event that is accepted sets last_read_at of its book
\* to the time the worker received it, and GET /books/current answers with a
\* book whose last event was received at the latest such time: after an
\* accepted event received later than the last event of every other book,
\* it answers with the book of that event, whatever session the event is of.
C21_CurrentIsLastReceived ==
    /\ Posted /\ last.results = <<TRUE>> =>
            /\ RowOf(db.reading_status, "book_id", BookIdOf(last.event)).last_read_at = last.at
            /\ \E r \in getCurrentReading(db) : r.id = BookIdOf(last.event)
    /\ last.op = "current" /\ last.prev.op = "post" /\ last.prev.results = <<TRUE>> =>
            /\ last.result.last_read_at = last.prev.at
            /\ (\A i \in 1..Len(db.reading_status) :
                    db.reading_status[i].book_id # BookIdOf(last.prev.event) =>
                        db.reading_status[i].last_read_at < last.prev.at)
                => last.result.title = last.prev.event.title

\* a page turn of session 2 on book B was received, then one of session 1 on
\* book A, and the current book is A
C21_EarlierSessionCurrent ==
    /\ last.op = "current" /\ last.prev.op = "post"
    /\ last.prev.event.session_id = generateSessionId(1) /\ last.prev.event.title = TitleA
    /\ last.result.title = TitleA
    /\ Len(db.page_events) = 2 /\ db.page_events[1].session_id = generateSessionId(2)
    /\ db.page_events[1].book_id # db.page_events[2].book_id
    /\ db.page_events[1].timestamp < db.page_events[2].timestamp

\* the events of the body of the last request, array or single object
BodyEvents == IF "array" \in DOMAIN last.body THEN last.body.array ELSE <<last.body.object>>

\* C22 (SpecBatch): a POST /events with an array of n events is answered 200
\* with processed = n, succeeded + failed = n and ok exactly when failed = 0;
\* every event with a title succeeds and adds its page_events row, whatever
\* fails before or after it, and the rows that were there stay.
C22_BatchCounts ==
    last.op = "batch" /\ "array" \in DOMAIN last.body =>
        /\ last.answer.status = 200
        /\ last.answer.processed = Len(last.body.array)
        /\ last.answer.succeeded + last.answer.failed = Len(last.body.array)
        /\ last.answer.ok <=> last.answer.failed = 0
        /\ last.answer.succeeded = Cardinality({i \in 1..Len(last.body.array) : Truthy(last.body.array[i].title)})
        /\ Len(db.page_events) = Len(last.before.page_events) + last.answer.succeeded
        /\ SubSeq(db.page_events, 1, Len(last.before.page_events)) = last.before.page_events
        /\ \A i \in 1..Len(last.body.array) :
                Truthy(last.body.array[i].title) =>
                    \E k \in (Len(last.before.page_events) + 1)..Len(db.page_events) :
                        /\ db.page_events[k].page_number = last.body.array[i].current_page
                        /\ k = Len(last.before.page_events)
                                + Cardinality({j \in 1..i : Truthy(last.body.array[j].title)})

\* an event failed between two events that were applied
C22_FailureInTheMiddle ==
    /\ last.op = "batch" /\ "array" \in DOMAIN last.body /\ Len(last.body.array) = 3
    /\ last.answer.results = <<TRUE, FALSE, TRUE>> /\ ~last.answer.ok
    /\ last.answer.succeeded = 2 /\ last.answer.failed = 1
    /\ Len(db.page_events) = Len(last.before.page_events) + 2

\* C23 (SpecBatch): a POST /events whose body holds events with a title, as
\* an array or as a single object, is answered 200 with ok true and every
\* event of the body is applied to the store.
C23_ArrayOrObject ==
    last.op = "batch" /\ (\A i \in 1..Len(BodyEvents) : Truthy(BodyEvents[i].title)) =>
        /\ last.answer.status = 200 /\ last.answer.ok
        /\ Len(db.page_events) = Len(last.before.page_events) + Len(BodyEvents)

\* C24 (SpecLive): when the process is never restarted and the device ends up
\* online for good, a session_end written to the queue while the device was
\* offline is delivered later (the queue is emptied), also when no reading
\* event follows.
C24_OfflineEndDelivered ==
    ([](restarts = 0) /\ <>[]online) =>
        [](last.op = "close" /\ last.emitted /\ last.opened /\ ~online => <>(loadQueue(queue_file) = <<>>))

\* C25: whatever the interleaving of the calls of handleSyncStats for one md5,
\* the store holds at most one book row of that md5 and no call fails because
\* of the other.
C25_OneBookPerIdentity ==
    /\ \A i, j \in 1..Len(sdb.book) : sdb.book[i].md5 = sdb.book[j].md5 => i = j
    /\ \A r \in Slots : requests[r].pc # "failed"

\* C26: the UPDATE of the totals stores what the SELECT of the same call
\* returned, whatever other calls have inserted since, so that two calls for
\* one book can both complete and leave totals that differ from a recount.
C26_TotalsAreThoseSelected ==
    last.op = "req" /\ last.step = "update_totals" =>
        \A i \in 1..Len(sdb.book) :
            sdb.book[i].id = requests[last.r].bookId =>
                /\ sdb.book[i].total_read_pages = requests[last.r].totals.total_read_pages
                /\ sdb.book[i].total_read_time = requests[last.r].totals.total_read_time

\* two calls for the one stored book have completed, each has inserted its
\* page, and the cached totals are not those of the rows stored
C26_LostUpdate ==
    /\ Len(sdb.book) = 1
    /\ \A r \in Slots : requests[r].pc = "done" /\ requests[r].bookId = 1 /\ Len(requests[r].data.page_stats) > 0
    /\ requests[1].data # requests[2].data
    /\ <<sdb.book[1].total_read_pages, sdb.book[1].total_read_time>>
         # <<TotalReadPages(sdb.page_stat_data, 1), TotalReadTime(sdb.page_stat_data, 1)>>

\* C28: a call of handleSyncStats ended after its book statement and before
\* its page_stat_data statement leaves the book row it wrote in the store,
\* adds no page row, and nothing takes the book row back.
C28_BookWithoutItsPages ==
    last.op = "interrupt" /\ last.at = "stats" =>
        /\ \E i \in 1..Len(sdb.book) :
              /\ sdb.book[i].id = requests[last.r].bookId
              /\ sdb.book[i].md5 = requests[last.r].data.book.md5
              /\ sdb.book[i].last_open = srv_now
              /\ sdb.book[i].pages = requests[last.r].data.book.pages
        /\ sdb.page_stat_data = last.before.page_stat_data
        /\ requests[last.r].pc = "interrupted"

\* the first call for a book, carrying a page, was ended there: the book row
\* is stored and no page row is
C28_InterruptedFirstCall ==
    /\ last.op = "interrupt" /\ last.at = "stats"
    /\ Len(requests[last.r].data.page_stats) > 0
    /\ requests[last.r].existingBook = NULL
    /\ Len(sdb.book) = 1
    /\ sdb.page_stat_data = <<>>

C29_SyncTimeIsHighestStart ==
    last.op = "stats" /\ last.ok /\ Len(last.data.page_stats) > 0 =>
        \A i \in 1..Len(sdb.book), j \in 1..Len(sdb.sync_state), k \in 1..Len(sdb.page_stat_data) :
            /\ sdb.book[i].md5 = last.data.book.md5
            /\ sdb.sync_state[j].book_md5 = last.data.book.md5
            /\ sdb.page_stat_data[k].id_book = sdb.book[i].id
            => sdb.sync_state[j].last_sync_time >= sdb.page_stat_data[k].start_time

\* C30: no two stored rows of page telemetry have the same (book, page,
\* timestamp), neither in page_events (written by handleUpdate) nor in
\* page_stat_data (written by handleSyncStats).
C30_UniqueTelemetryRows ==
    /\ \A i, j \in 1..Len(db.page_events) :
          /\ db.page_events[i].book_id = db.page_events[j].book_id
          /\ db.page_events[i].page_number = db.page_events[j].page_number
          /\ db.page_events[i].timestamp = db.page_events[j].timestamp
          => i = j
    /\ \A i, j \in 1..Len(sdb.page_stat_data) :
          PageStatKey(sdb.page_stat_data[i]) = PageStatKey(sdb.page_stat_data[j]) => i = j

\* C31: a page count stored for a book is never set back to null by a step
\* of either worker, whatever page count the event or payload carries.
C31_PagesNeverCleared ==
    [][/\ \A i \in 1..Len(db.books) :
            db.books[i].total_pages # NULL =>
                \E j \in 1..Len(db'.books) : db'.books[j].id = db.books[i].id /\ db'.books[j].total_pages # NULL
       /\ \A i \in 1..Len(sdb.book) :
            sdb.book[i].pages # NULL =>
                \E j \in 1..Len(sdb'.book) : sdb'.book[j].id = sdb.book[i].id /\ sdb'.book[j].pages # NULL]_vars

\* a payload without a usable page count was handled for a book whose page
\* count is stored, and the page count is still there
C31_PagelessPayloadOnKnownBook ==
    /\ last.op = "stats" /\ last.ok
    /\ ~TruthyNum(last.data.book.pages)
    /\ Len(last.before.book) = 1 /\ last.before.book[1].pages = TotalPages
    /\ sdb.book[1].pages = TotalPages /\ sdb.book[1].last_open > last.before.book[1].last_open

\* C32: when a book is stored without a page count and an event (or payload)
\* for it carries one, the row has that page count afterwards.
C32_PagesFilledIn ==
    /\ Posted /\ last.results = <<TRUE>> /\ TruthyNum(last.event.total_pages) =>
          \A i \in 1..Len(last.before.books) :
              last.before.books[i].id = BookIdOf(last.event) /\ last.before.books[i].total_pages = NULL =>
                  db.books[i].total_pages = last.event.total_pages
    /\ last.op = "stats" /\ last.ok /\ TruthyNum(last.data.book.pages) =>
          \A i \in 1..Len(last.before.book) :
              last.before.book[i].md5 = last.data.book.md5 /\ last.before.book[i].pages = NULL =>
                  sdb.book[i].pages = last.data.book.pages

\* C33: a step that empties the queue file is a flush whose request carried
\* exactly the records the file held at that step, in order, and the step
\* enqueues nothing: no record is removed that was not sent.
C33_ClearedIsSent ==
    [][queue_file # <<>> /\ queue_file' = <<>> =>
          /\ last'.op = "flush" /\ last'.status = 200
          /\ Len(last'.sent) = Len(queue_file)
          /\ \A i \in 1..Len(queue_file) : last'.sent[i] = json_decode(queue_file[i])
          /\ enqueued' = enqueued]_vars

\* a flush has sent the two records or more that had gathered in the file, the
\* one enqueued just before it included, and emptied the file
C33_GatheredBatchCleared ==
    /\ last.op = "flush" /\ last.cleared /\ last.opened
    /\ Len(last.sent) >= 2 /\ Len(last.before) = Len(last.sent)
    /\ queue_file = <<>>

\* C34: in the queue of a device that stays offline, every record carries the
\* id of one of the sessions opened; each session opened has exactly one
\* session_start, which is the first record with its id, and at most one
\* session_end, which is the last one; the records of a session come before
\* those of the next; while a document is open the id is that of the session
\* opened last, and after the close current_session_id is nil.
C34_SessionProtocol ==
    LET q == loadQueue(queue_file)
        Of(n) == {i \in 1..Len(q) : q[i].session_id = generateSessionId(n)}
    IN  /\ \A i \in 1..Len(q) : \E n \in 1..opened_sessions : i \in Of(n)
        /\ \A n \in 1..opened_sessions :
              /\ Cardinality({i \in Of(n) : q[i].event_type = SESSION_START}) = 1
              /\ Cardinality({i \in Of(n) : q[i].event_type = SESSION_END}) <= 1
              /\ \A i, j \in Of(n) :
                    /\ q[j].event_type = SESSION_START => j <= i
                    /\ q[i].event_type = SESSION_END => j <= i
              /\ \A i \in Of(n), m \in (n + 1)..opened_sessions : \A j \in Of(m) : i < j
              /\ n < opened_sessions \/ ~ready => \E i \in Of(n) : q[i].event_type = SESSION_END
        /\ ready => current_session_id = generateSessionId(opened_sessions)
        /\ ~ready => current_session_id = Nil

\* a whole session is in the queue: its start, a page turn, its end
C34_WholeSession ==
    LET q == loadQueue(queue_file)
    IN  /\ Len(q) = 3 /\ ~ready /\ opened_sessions = 1
        /\ <<q[1].event_type, q[2].event_type, q[3].event_type>> = <<SESSION_START, PAGE_TURN, SESSION_END>>
        /\ \A i \in 1..3 : q[i].session_id = generateSessionId(1)

\* C35: within a session max_page_reached never decreases and is at least
\* every page passed to onPageUpdate so far (and the page the session opened
\* at), and the page_turn records of a session have strictly increasing pages.
C35_MaxPageMonotone ==
    LET q == loadQueue(queue_file)
    IN  /\ last.op = "page" => max_page_reached >= last.prev_max /\ max_page_reached >= last.payload.current_page
        /\ ready => \A i \in 1..Len(page_log) : max_page_reached >= page_log[i].page
        /\ \A i, j \in 1..Len(q) :
              /\ i < j /\ q[i].session_id = q[j].session_id
              /\ q[i].event_type = PAGE_TURN /\ q[j].event_type = PAGE_TURN
              => q[i].current_page < q[j].current_page

\* a session went forward, back and forward again: the page shown is behind
\* max_page_reached at some update and two page turns are in the queue
C35_BackAndForward ==
    LET q == loadQueue(queue_file)
    IN  /\ ready /\ Len(page_log) = 4
        /\ page_log[3].page < page_log[2].page /\ ~page_log[3].emitted
        /\ max_page_reached = page_log[4].page /\ page_log[4].page > page_log[2].page
        /\ Cardinality({i \in 1..Len(q) : q[i].event_type = PAGE_TURN}) = 2

\* C36: a page_turn is enqueued only when at least MIN_SYNC_GAP seconds have
\* passed since the last event emitted, of any type (last_sync_time is the
\* time of that event); session_start and session_end are emitted whatever
\* the gap; a forward page update held back by the throttle still raises
\* max_page_reached, and the session's queue holds no page_turn for its page.
C36_Throttle ==
    LET q == loadQueue(queue_file)
    IN  /\ last.op = "page" /\ last.emitted => last.gap >= MIN_SYNC_GAP
        /\ last.op \in {"ready", "page", "close"} /\ last.emitted => last_sync_time = now
        /\ last.op \in {"ready", "close"} => last.emitted
        /\ last.op = "page" /\ ~last.emitted /\ last.payload.current_page > last.prev_max =>
              /\ last.gap < MIN_SYNC_GAP
              /\ max_page_reached = last.payload.current_page
        /\ ready =>
              \A i \in 2..Len(page_log) :
                  ~page_log[i].emitted /\ (\A j \in 1..(i - 1) : page_log[j].page < page_log[i].page) =>
                      ~\E k \in 1..Len(q) :
                          /\ q[k].session_id = current_session_id
                          /\ q[k].event_type = PAGE_TURN
                          /\ q[k].current_page = page_log[i].page

\* a forward update was held back less than MIN_SYNC_GAP seconds after the
\* session_start and the session was closed within the gap, on a later page
\* than it opened at: the queue holds the start and the end only
C36_SkippedPage ==
    LET q == loadQueue(queue_file)
    IN  /\ last.op = "close" /\ last.emitted /\ last.gap < MIN_SYNC_GAP
        /\ Len(q) = 2 /\ q[1].event_type = SESSION_START /\ q[2].event_type = SESSION_END
        /\ q[2].current_page > q[1].current_page

\* C37: every reading_status, sessions and page_events row has the id of a
\* books row, every page_stat_data row the id of a book row and every
\* sync_state row the md5 of a book row.
C37_ReferentialIntegrity ==
    /\ \A i \in 1..Len(db.reading_status) : HasRow(db.books, "id", db.reading_status[i].book_id)
    /\ \A i \in 1..Len(db.sessions) : HasRow(db.books, "id", db.sessions[i].book_id)
    /\ \A i \in 1..Len(db.page_events) : HasRow(db.books, "id", db.page_events[i].book_id)
    /\ \A i \in 1..Len(sdb.page_stat_data) : HasRow(sdb.book, "id", sdb.page_stat_data[i].id_book)
    /\ \A i \in 1..Len(sdb.sync_state) : HasRow(sdb.book, "md5", sdb.sync_state[i].book_md5)

\* each of the five dependent tables holds a row
C37_AllTablesFilled ==
    /\ Len(db.reading_status) >= 1 /\ Len(db.sessions) >= 1 /\ Len(db.page_events) >= 1
    /\ Len(sdb.page_stat_data) >= 1 /\ Len(sdb.sync_state) >= 1

\* C38: every sessions row has a started_at, and an ended_at that is set is
\* not earlier than it; a session_end for a session without a row creates no
\* row, and the session_start that creates the row leaves ended_at unset.
C38_SessionTimes ==
    /\ \A i \in 1..Len(db.sessions) :
          /\ db.sessions[i].started_at # NULL
          /\ Ended(db.sessions[i]) => db.sessions[i].ended_at >= db.sessions[i].started_at
    /\ Posted /\ ~HasRow(last.before.sessions, "id", last.event.session_id) =>
          /\ last.event.event_type = SESSION_END => db.sessions = last.before.sessions
          /\ last.event.event_type = SESSION_START =>
                /\ HasRow(db.sessions, "id", last.event.session_id)
                /\ ~Ended(RowOf(db.sessions, "id", last.event.session_id))

\* the session_start of a session has arrived after its session_end (the
\* page_events row of the end is stored): the row is there, not ended
C38_StartAfterEnd ==
    /\ Posted /\ last.event.event_type = SESSION_START
    /\ last.before.sessions = <<>>
    /\ HasRow(last.before.page_events, "session_id", last.event.session_id)
    /\ Len(db.sessions) = 1 /\ ~Ended(db.sessions[1]) /\ db.sessions[1].started_at = last.at

====
